---- MODULE Spec2Model ----
(***************************************************************************)
(* ThingsBoard gateway: the credential lifecycle (ThingsboardAuthService)  *)
(* and the 401-retrying query path (ThingsboardTelemetryService).          *)
(*                                                                         *)
(* Node runs one callback to completion before the next one starts, so an  *)
(* action is one synchronous segment: from the call (or from the arrival   *)
(* of the awaited response) to the next await on the network or the timer. *)
(* Time is the value of Date.now() in milliseconds.                        *)
(***************************************************************************)
EXTENDS Integers, Sequences, FiniteSets, TLC

\* ---------------------------------------------------------------- bounds
\* Number of clock ticks explored.
MaxTicks == 2

\* ------------------------------------------------------ program constants
\* getValidToken: refresh when less than this remains (ms).
REFRESH_THRESHOLD == 60000
\* setupAutoRefresh: schedule this long before expiry (ms).
REFRESH_LEAD == 120000
\* setupAutoRefresh: never schedule sooner than this (ms).
MIN_REFRESH_DELAY == 60000
\* getTokenExpiration: lifetime assumed when the token carries no exp claim (ms).
DEFAULT_LIFETIME == 15 * 60 * 1000
\* ThingsboardTelemetryService.maxRetries
maxRetries == 3
\* ThingsboardTelemetryService.retryDelayMs
retryDelayMs == 1000

\* One clock tick: half the refresh threshold, so that a credential can sit
\* exactly on the threshold and on either side of it.
TickMs == REFRESH_THRESHOLD \div 2
MaxNow == MaxTicks * TickMs

\* The asynchronous tasks that may overlap: an HTTP request running
\* getTimeseries, and two other users of the auth service (direct callers of
\* authenticate / refreshToken / getValidToken, or the interval's callback).
QueryTasks == {"query"}
CallerTasks == {"c1", "c2"}
Tasks == QueryTasks \cup CallerTasks

VARIABLES
  now,                  \* Date.now()
  tokenPayload,         \* ThingsboardAuthService.tokenPayload
  tokenRefreshInterval, \* ThingsboardAuthService.tokenRefreshInterval (0 = null)
  timers,               \* the intervals the event loop holds: id -> [delay, due]
  task,                 \* the asynchronous tasks: where each is suspended
  env,                  \* process.env: THINGSBOARD_USERNAME, THINGSBOARD_PASSWORD
  authService,          \* the ThingsboardAuthService instance: state, username, password
  log,                  \* the configuration and token values written to the log
  devicesCache,         \* DeviceService.devicesCache
  cacheTimestamp,       \* DeviceService.cacheTimestamp
  req                   \* the HTTP request a route handler is serving

\* The variables the auth and telemetry services work on, and the others.
authVars == <<now, tokenPayload, tokenRefreshInterval, timers, task>>
bootVars == <<env, authService, log>>
routeVars == <<devicesCache, cacheTimestamp, req>>
nonAuthVars == <<bootVars, routeVars>>
vars == <<authVars, nonAuthVars>>

\* ------------------------------------------------------------ the upstream
\* What the login, refresh and query endpoints may answer; transport = TRUE
\* is a connection error or a timeout (axios rejects, there is no status).
Response(s) == [transport |-> FALSE, status |-> s]
TransportFailure == [transport |-> TRUE, status |-> 0]
LoginOutcomes == {Response(200), Response(401), TransportFailure}
RefreshOutcomes == {Response(200), Response(401), Response(500), TransportFailure}
QueryOutcomes == {Response(200), Response(401), Response(404), Response(400),
                  Response(500), TransportFailure}

\* The exp claim (seconds) the upstream may put in a token issued at time t:
\* already in the past, exactly on the refresh threshold, or none at all (0).
ExpClaims(t) == {(t - TickMs \div 2) \div 1000, (t + REFRESH_THRESHOLD) \div 1000, 0}

\* ----------------------------------------------------------------- values
NullPayload == [present |-> FALSE, token |-> 0, refreshToken |-> 0, expiresAt |-> 0]

NoResult == [kind |-> "none", val |-> 0, status |-> 0]
TokenResult(tok) == [kind |-> "token", val |-> tok, status |-> 0]
DataResult == [kind |-> "data", val |-> 0, status |-> 200]
\* new Error(...): kind names the throw site, status the status in its message.
ErrorResult(k, s) == [kind |-> k, val |-> 0, status |-> s]
IsError(r) == r.kind \in {"AuthFailed", "Transport", "EntityNotFound", "BadRequest", "ApiError"}

IdleTask ==
  [op |-> "none", pc |-> "idle", ctx |-> "none", retryCount |-> 0,
   qToken |-> 0, sawStale |-> FALSE, startFresh |-> FALSE,
   refreshOutcome |-> "none", loginStatus |-> 0,
   nRefresh |-> 0, qHist |-> <<>>, result |-> NoResult]

\* The access tokens something still refers to; the upstream never issues one
\* of these again.
LiveTokens ==
  {tokenPayload.token} \cup {task[p].qToken : p \in Tasks}
    \cup {task[p].result.val : p \in Tasks}
NewToken == CHOOSE i \in 1..(Cardinality(LiveTokens) + 1) : i \notin LiveTokens

\* ------------------------------------------------ ThingsboardAuthService
\* getTokenExpiration: exp claim in seconds -> epoch ms, else now + 15 min.
getTokenExpiration(exp, t) ==
  IF exp # 0 THEN exp * 1000 ELSE t + DEFAULT_LIFETIME

\* The tokenPayload built from a 200 login or refresh response.
StoredPayload(tok, rt, exp, t) ==
  [present |-> TRUE, token |-> tok, refreshToken |-> rt,
   expiresAt |-> getTokenExpiration(exp, t)]

\* The test with <= for <.
ExpiringSoon_inclusive(payload, t) == payload.expiresAt - t <= REFRESH_THRESHOLD

\* The test against the expiry itself, without the one-minute margin.
ExpiringSoon_noMargin(payload, t) == payload.expiresAt - t < 0

\* getValidToken's test: less than one minute remaining.
ExpiringSoon(payload, t) == payload.expiresAt - t < REFRESH_THRESHOLD

\* The delay without its one-minute floor.
refreshDelay_noFloor(payload, t) == payload.expiresAt - t - REFRESH_LEAD

\* setupAutoRefresh's delay.
refreshDelay(payload, t) ==
  LET timeUntilExpiry == payload.expiresAt - t
      d == timeUntilExpiry - REFRESH_LEAD
  IN IF d > MIN_REFRESH_DELAY THEN d ELSE MIN_REFRESH_DELAY

\* When an interval armed (or re-armed) at t with delay d is next due. A due
\* time past the explored ticks is recorded as the first instant after them.
DueAt(t, d) == IF t + d > MaxNow THEN MaxNow + TickMs ELSE t + d

\* clearInterval(h): the event loop drops interval h, if it still holds it.
clearInterval(tms, h) == [i \in DOMAIN tms \ {h} |-> tms[i]]

\* setInterval: a handle no live interval and no held handle uses.
NewTimerId(tms, h) ==
  CHOOSE i \in 1..(Cardinality(DOMAIN tms) + 2) : i \notin DOMAIN tms /\ i # h

\* setupAutoRefresh without the clearInterval of the previous handle.
setupAutoRefresh_noClear(tms, h, payload, t) ==
  IF ~payload.present THEN [timers |-> tms, handle |-> h]
  ELSE LET id == NewTimerId(tms, h)
           d == refreshDelay(payload, t)
       IN [timers |-> [i \in DOMAIN tms \cup {id} |->
                         IF i = id THEN [delay |-> d, due |-> DueAt(t, d)] ELSE tms[i]],
           handle |-> id]

\* setupAutoRefresh without the setInterval.
setupAutoRefresh_noArm(tms, h, payload, t) ==
  [timers |-> IF h # 0 THEN clearInterval(tms, h) ELSE tms, handle |-> h]

\* setupAutoRefresh: clear the previous interval, then arm a new one.
setupAutoRefresh(tms, h, payload, t) ==
  LET cleared == IF h # 0 THEN clearInterval(tms, h) ELSE tms
  IN IF ~payload.present THEN [timers |-> cleared, handle |-> h]
     ELSE LET id == NewTimerId(cleared, h)
              d == refreshDelay(payload, t)
          IN [timers |-> [i \in DOMAIN cleared \cup {id} |->
                            IF i = id THEN [delay |-> d, due |-> DueAt(t, d)] ELSE cleared[i]],
              handle |-> id]

\* authenticate() up to its await: the login request is sent.
authenticateStart(t) ==
  [t EXCEPT !.pc = "login", !.loginStatus = 0]

\* refreshToken() up to its await: no refresh token -> authenticate(),
\* else the refresh request is sent.
refreshTokenStart(t, payload) ==
  LET t1 == [t EXCEPT !.nRefresh = @ + 1]
  IN IF ~payload.present \/ payload.refreshToken = 0
     THEN authenticateStart([t1 EXCEPT !.refreshOutcome = "noToken"])
     ELSE [t1 EXCEPT !.pc = "refresh", !.refreshOutcome = "pending"]

\* What the caller of getValidToken() does with the token it is given:
\* getTimeseriesWithRetry builds the client and sends the query, any other
\* caller has its result.
GotToken(t, tok) ==
  CASE t.op = "getTimeseries" ->
         [t EXCEPT !.pc = "query", !.qToken = tok,
                   !.refreshOutcome = "none", !.loginStatus = 0]
    [] t.op = "timer" -> [t EXCEPT !.pc = "done"]
    [] OTHER -> [t EXCEPT !.pc = "done", !.result = TokenResult(tok)]

\* getValidToken() up to its first await (or to its return).
getValidTokenStart(t, payload, clock) ==
  IF ~payload.present
  THEN authenticateStart([t EXCEPT !.ctx = "gvt", !.refreshOutcome = "none"])
  ELSE IF ExpiringSoon(payload, clock)
       THEN refreshTokenStart(
              [t EXCEPT !.ctx = "gvt", !.sawStale = TRUE], payload)
       ELSE GotToken([t EXCEPT !.ctx = "gvt"], payload.token)

\* The retry sent with the token the forced refresh returned, without asking
\* getValidToken() again.
RenewalReturned_noRevalidate(t, tok, payload, clock) ==
  IF t.op = "getTimeseries" /\ t.ctx = "forced"
  THEN GotToken([t EXCEPT !.retryCount = @ + 1], tok)
  ELSE GotToken(t, tok)

\* authenticate() or refreshToken() returned tok to its caller. After the
\* forced refresh of the 401 path the caller is getTimeseriesWithRetry, which
\* calls itself with retryCount + 1 and so asks getValidToken() again.
RenewalReturned(t, tok, payload, clock) ==
  IF t.op = "getTimeseries" /\ t.ctx = "forced"
  THEN getValidTokenStart([t EXCEPT !.retryCount = @ + 1], payload, clock)
  ELSE GotToken(t, tok)

\* The interval's callback without its .catch: the failure escapes.
RenewalThrew_uncaught(t, e) == [t EXCEPT !.pc = "done", !.result = e]

\* refreshToken() with "return await this.authenticate()" in its 401 branch:
\* the failed login is caught by refreshToken's own catch, which logs in again.
RenewalThrew_retryLogin(t, e) ==
  IF t.refreshOutcome = "401"
  THEN authenticateStart([t EXCEPT !.refreshOutcome = "caught"])
  ELSE IF t.op = "timer" THEN [t EXCEPT !.pc = "done"]
       ELSE [t EXCEPT !.pc = "done", !.result = e]

\* authenticate() or refreshToken() threw e: the timer callback logs and
\* swallows it, every other caller sees it (getTimeseriesWithRetry logs and
\* rethrows).
RenewalThrew(t, e) ==
  IF t.op = "timer" THEN [t EXCEPT !.pc = "done"]
  ELSE [t EXCEPT !.pc = "done", !.result = e]

\* ------------------------------------------- request parsing (telemetry.router)
\* A string is the sequence of its characters; a query parameter is a string
\* or is not given.
Absent == [given |-> FALSE, s |-> <<>>]
Str(s) == [given |-> TRUE, s |-> s]
\* !x for a query parameter: not given, or the empty string.
Falsy(v) == ~v.given \/ v.s = <<>>

Lower == <<"a","b","c","d","e","f","g","h","i","j","k","l","m",
           "n","o","p","q","r","s","t","u","v","w","x","y","z">>
Upper == <<"A","B","C","D","E","F","G","H","I","J","K","L","M",
           "N","O","P","Q","R","S","T","U","V","W","X","Y","Z">>
UpperOf(c) ==
  IF \E i \in 1..26 : Lower[i] = c THEN Upper[CHOOSE i \in 1..26 : Lower[i] = c] ELSE c
LowerOf(c) ==
  IF \E i \in 1..26 : Upper[i] = c THEN Lower[CHOOSE i \in 1..26 : Upper[i] = c] ELSE c
\* String.prototype.toUpperCase / toLowerCase
toUpperCase(s) == [i \in 1..Len(s) |-> UpperOf(s[i])]
toLowerCase(s) == [i \in 1..Len(s) |-> LowerOf(s[i])]

\* A number, NaN, or undefined.
NumUndefined == [kind |-> "undefined", n |-> 0]
NaN == [kind |-> "NaN", n |-> 0]
Num(n) == [kind |-> "number", n |-> n]
isNaN(x) == x.kind = "NaN"
\* The truthiness of a number in a condition: not undefined, not NaN, not 0.
NumTruthy(x) == x.kind = "number" /\ x.n # 0

Digits == <<"0","1","2","3","4","5","6","7","8","9">>
IsDigit(c) == \E i \in 1..10 : Digits[i] = c
DigitVal(c) == (CHOOSE i \in 1..10 : Digits[i] = c) - 1

RECURSIVE TrimStart(_)
TrimStart(s) == IF s # <<>> /\ s[1] = " " THEN TrimStart(Tail(s)) ELSE s
RECURSIVE TrimEnd(_)
TrimEnd(s) ==
  IF s # <<>> /\ s[Len(s)] = " " THEN TrimEnd(SubSeq(s, 1, Len(s) - 1)) ELSE s
\* String.prototype.trim
trim(s) == TrimEnd(TrimStart(s))

RECURSIVE ReadDigits(_, _, _)
ReadDigits(s, acc, seen) ==
  IF s # <<>> /\ IsDigit(s[1])
  THEN ReadDigits(Tail(s), acc * 10 + DigitVal(s[1]), TRUE)
  ELSE [seen |-> seen, n |-> acc]

\* parseInt(s, 10): leading blanks, an optional sign, then the longest run of
\* digits; NaN when there is no digit.
parseInt(s) ==
  LET t == TrimStart(s)
      signed == t # <<>> /\ t[1] \in {"-", "+"}
      r == ReadDigits(IF signed THEN Tail(t) ELSE t, 0, FALSE)
  IN IF ~r.seen THEN NaN
     ELSE IF signed /\ t[1] = "-" THEN Num(0 - r.n) ELSE Num(r.n)

RECURSIVE SplitComma(_, _)
\* String.prototype.split(','), given the part read so far.
SplitComma(s, cur) ==
  IF s = <<>> THEN <<cur>>
  ELSE IF s[1] = "," THEN <<cur>> \o SplitComma(Tail(s), <<>>)
       ELSE SplitComma(Tail(s), Append(cur, s[1]))

NonEmpty(k) == k # <<>>
\* String(keys).split(',').map(trim).filter(k => k.length > 0)
KeyArray(s) ==
  LET parts == SplitComma(s, <<>>)
  IN SelectSeq([i \in 1..Len(parts) |-> trim(parts[i])], NonEmpty)

\* x ? parseInt(String(x), 10) : undefined
OptionalInt(v) == IF Falsy(v) THEN NumUndefined ELSE parseInt(v.s)
\* value && (isNaN(value) || value < 1): the rejection test of interval and limit.
NotPositive(x) == NumTruthy(x) /\ (isNaN(x) \/ x.n < 1)

validAgg == {<<"N","O","N","E">>, <<"A","V","G">>, <<"M","I","N">>,
             <<"M","A","X">>, <<"S","U","M">>}
validOrder == {<<"A","S","C">>, <<"D","E","S","C">>}

\* x ? String(x) : undefined
OptionalString(v) == IF Falsy(v) THEN Absent ELSE v

\* useStrictDataTypes && String(useStrictDataTypes).toLowerCase() === 'true'
\*   ? true : undefined
StrictFlag(v) ==
  IF ~Falsy(v) /\ toLowerCase(v.s) = <<"t","r","u","e">> THEN "true" ELSE "undefined"

\* The required parameters of each route.
MissingRequired(route, q) ==
  \/ Falsy(q.keys) \/ Falsy(q.startTs) \/ Falsy(q.endTs)
  \/ route = "legacy" /\ (Falsy(q.entityType) \/ Falsy(q.entityId))

\* The arguments of telemetryService.getTimeseries after entityType, entityId;
\* or the reason of the 400.
Accept(k, s, e, i, a, o, l, u) ==
  [ok |-> TRUE, error |-> "", keys |-> k, startTs |-> s, endTs |-> e, interval |-> i,
   agg |-> a, orderBy |-> o, limit |-> l, useStrictDataTypes |-> u]
Reject(reason) ==
  [Accept(<<>>, 0, 0, NumUndefined, Absent, Absent, NumUndefined, "undefined")
     EXCEPT !.ok = FALSE, !.error = reason]

\* The checks of both timeseries handlers between the required-parameter test
\* and the getTimeseries call, in the handlers' order.
ParseQuery(q) ==
  LET startTimestamp == parseInt(q.startTs.s)
      endTimestamp == parseInt(q.endTs.s)
      keyArray == KeyArray(q.keys.s)
      intervalValue == OptionalInt(q.interval)
      limitValue == OptionalInt(q.limit)
  IN IF isNaN(startTimestamp) \/ isNaN(endTimestamp) THEN Reject("timestamp format")
     ELSE IF startTimestamp.n >= endTimestamp.n THEN Reject("startTs >= endTs")
     ELSE IF keyArray = <<>> THEN Reject("no key")
     ELSE IF NotPositive(intervalValue) THEN Reject("interval")
     ELSE IF ~Falsy(q.agg) /\ toUpperCase(q.agg.s) \notin validAgg THEN Reject("agg")
     ELSE IF ~Falsy(q.orderBy) /\ toUpperCase(q.orderBy.s) \notin validOrder
          THEN Reject("orderBy")
     ELSE IF NotPositive(limitValue) THEN Reject("limit")
     ELSE Accept(keyArray, startTimestamp.n, endTimestamp.n, intervalValue,
                 OptionalString(q.agg), OptionalString(q.orderBy), limitValue,
                 StrictFlag(q.useStrictDataTypes))

\* ------------------------------------------------------------ DeviceService
\* DeviceService.cacheDuration (ms)
cacheDuration == 5 * 60 * 1000
\* One step of the clock in the device-directory specifications: half the
\* cache duration, so that a cache can sit exactly on the limit.
CacheTickMs == cacheDuration \div 2

\* The device lists the directory may hold (a device is its deviceUUID).
DeviceLists == {<<>>, <<"dev-A">>, <<"dev-A", "dev-B">>}
\* The deviceUUID path parameters requested.
DeviceUUIDs == {"dev-A", "dev-B"}

\* A response body of the directory: a bare array, an object (with or without
\* a data member, which may or may not be an array), null, or a string.
JValue(type, items) ==
  [type |-> type, items |-> items, hasData |-> FALSE, dataType |-> "none", dataItems |-> <<>>]
JArray(l) == JValue("array", l)
JObject(dataType, dataItems) ==
  [type |-> "object", items |-> <<>>, hasData |-> TRUE, dataType |-> dataType,
   dataItems |-> dataItems]
JNoBody == JValue("none", <<>>)
DirectoryBodies ==
  {JArray(l) : l \in DeviceLists} \cup {JObject("array", l) : l \in DeviceLists}
    \cup {JObject("null", <<>>), JValue("object", <<>>), JValue("null", <<>>),
          JValue("string", <<>>)}
\* What GET /customer/devices may answer: axios resolves with a body, or
\* rejects (connection error, timeout, status outside 2xx).
DirectoryOutcomes ==
  {[rejected |-> FALSE, body |-> b] : b \in DirectoryBodies}
    \cup {[rejected |-> TRUE, body |-> JNoBody]}

\* getDevices without the unwrapping of { data }.
Unwrap_bare(payload) == payload

\* payload && typeof payload === 'object' && 'data' in payload
\*   ? payload.data : payload
Unwrap(payload) ==
  IF payload.type = "object" /\ payload.hasData
  THEN JValue(payload.dataType, payload.dataItems)
  ELSE payload

NoCache == [present |-> FALSE, list |-> <<>>]
Cached(l) == [present |-> TRUE, list |-> l]

\* The freshness test with <= for <.
isCacheFresh_inclusive(stamp, t) == t - stamp <= cacheDuration

\* isCacheFresh()
isCacheFresh(stamp, t) == t - stamp < cacheDuration

\* getDevices before its await: the cached list can be returned.
CacheUsable(forceRefresh, cache, stamp, t) ==
  ~forceRefresh /\ cache.present /\ isCacheFresh(stamp, t)

\* getDevices without the stale-cache fallback of its catch block: a failed
\* fetch always throws.
getDevicesEnd_noStale(o, cache, stamp, t) ==
  LET devices == Unwrap(o.body)
  IN IF ~o.rejected /\ devices.type = "array"
     THEN [threw |-> FALSE, list |-> devices.items,
           cache |-> Cached(devices.items), stamp |-> t]
     ELSE [threw |-> TRUE, list |-> <<>>, cache |-> cache, stamp |-> stamp]

\* getDevices after its await, given the directory's answer o: the list it
\* returns or its throw, and the cache it leaves.
getDevicesEnd(o, cache, stamp, t) ==
  LET devices == Unwrap(o.body)
  IN IF ~o.rejected /\ devices.type = "array"
     THEN [threw |-> FALSE, list |-> devices.items,
           cache |-> Cached(devices.items), stamp |-> t]
     ELSE IF cache.present
          THEN [threw |-> FALSE, list |-> cache.list, cache |-> cache, stamp |-> stamp]
          ELSE [threw |-> TRUE, list |-> <<>>, cache |-> cache, stamp |-> stamp]

\* devices.find(d => d.deviceUUID === deviceUUID) finds one.
HasDevice(list, uuid) == \E i \in 1..Len(list) : list[i] = uuid

\* ------------------------------------------------- telemetry.router: values
\* A raw query with every parameter valid and no optional parameter.
GoodQuery ==
  [entityType |-> Str(<<"D","E","V","I","C","E">>), entityId |-> Str(<<"e","1">>),
   keys |-> Str(<<"a">>), startTs |-> Str(<<"1","0">>), endTs |-> Str(<<"2","0">>),
   interval |-> Absent, agg |-> Absent, orderBy |-> Absent, limit |-> Absent,
   useStrictDataTypes |-> Absent]

\* The raw queries sent while the device directory is explored: valid,
\* startTs = endTs, no key after trimming, keys missing, entityId missing.
RouteRaws ==
  {GoodQuery,
   [GoodQuery EXCEPT !.endTs = Str(<<"1","0">>)],
   [GoodQuery EXCEPT !.keys = Str(<<" ",","," ">>)],
   [GoodQuery EXCEPT !.keys = Absent],
   [GoodQuery EXCEPT !.entityId = Absent]}

\* The raw queries sent to explore the parsing of every parameter.
ValidatorRaws ==
  [entityType : {GoodQuery.entityType},
   entityId : {GoodQuery.entityId},
   keys : {Absent, Str(<<"a">>), Str(<<" ",","," ">>), Str(<<"a",","," ","b">>)},
   startTs : {Absent, Str(<<"x">>), Str(<<"1","0">>)},
   endTs : {Str(<<"1","0">>), Str(<<"2","0">>)},
   interval : {Absent, Str(<<"0">>), Str(<<"-","5">>), Str(<<"x">>), Str(<<"1","5">>)},
   agg : {Absent, Str(<<"a","v","g">>), Str(<<"A","V","G">>), Str(<<"f","o","o">>)},
   orderBy : {Absent, Str(<<"d","e","s","c">>), Str(<<"A","S","C">>), Str(<<"u","p">>)},
   limit : {Absent, Str(<<"0">>), Str(<<"7">>), Str(<<"x">>)},
   useStrictDataTypes : {Absent, Str(<<"T","R","U","E">>), Str(<<"t","r","u","e">>),
                         Str(<<"f","a","l","s","e">>)}]

\* The values of the refresh parameter of GET /devices.
RefreshRaws == {Absent, Str(<<"t","r","u","e">>), Str(<<"T","R","U","E">>)}

\* What telemetryService.getTimeseries may return or throw.
TimeseriesOutcomes ==
  {DataResult, ErrorResult("Transport", 0), ErrorResult("AuthFailed", 401),
   ErrorResult("EntityNotFound", 404), ErrorResult("BadRequest", 400),
   ErrorResult("ApiError", 500), ErrorResult("ApiError", 401)}

\* The JSON body of a response.
NoBody == [success |-> FALSE, kind |-> "none", data |-> <<>>, count |-> 0, error |-> ""]
DevicesBody(l) ==
  [success |-> TRUE, kind |-> "devices", data |-> l, count |-> Len(l), error |-> ""]
TimeseriesBody ==
  [success |-> TRUE, kind |-> "timeseries", data |-> <<>>, count |-> 0, error |-> ""]
ErrorBody(msg) ==
  [success |-> FALSE, kind |-> "error", data |-> <<>>, count |-> 0, error |-> msg]

\* No directory answer seen yet.
NoAnswer == [rejected |-> FALSE, body |-> JNoBody]

\* A handler that is not running.
IdleReq ==
  [route |-> "none", pc |-> "idle", q |-> GoodQuery, uuid |-> "", force |-> FALSE,
   status |-> 0, body |-> NoBody, dirCalls |-> 0, tsCalls |-> 0,
   args |-> Reject(""), dirAnswer |-> NoAnswer, tsResult |-> NoResult]

\* The messages of the errors a handler's catch block may see, by throw site.
DeviceNotFoundMsg == "Device with UUID not found"
FetchFailedMsg == "Failed to fetch devices"
TimeseriesErrorMsg(e) ==
  CASE e.kind = "EntityNotFound" -> "Entity not found (404)"
    [] e.kind = "BadRequest" -> "Bad request"
    [] e.kind = "ApiError" -> "ThingsBoard API error"
    [] e.kind = "AuthFailed" -> "Authentication failed with status"
    [] OTHER -> "timeout of 10000ms exceeded"
\* errorMsg.includes('not found')
IncludesNotFound(msg) == msg \in {DeviceNotFoundMsg, "Entity not found (404)"}

\* The status the catch block of each timeseries route answers with.
CatchStatus(route, msg) ==
  IF route = "device" /\ IncludesNotFound(msg) THEN 404 ELSE 502

\* res.status(s).json(b)
Respond(r, s, b) == [r EXCEPT !.pc = "done", !.status = s, !.body = b]

\* Both timeseries handlers from the timestamp parsing to the await of
\* getTimeseries.
ParseAndCall(r) ==
  LET v == ParseQuery(r.q)
  IN IF ~v.ok THEN Respond(r, 400, ErrorBody(v.error))
     ELSE [r EXCEPT !.pc = "ts", !.args = v, !.tsCalls = @ + 1]

\* getDevices(forceRefresh) sends its request to the directory.
FetchDevices(r, pc) == [r EXCEPT !.pc = pc, !.dirCalls = @ + 1]

\* ------------------------------------------------------------ construction
\* An environment variable that is not set.
Undefined == "<undefined>"
\* The environments explored: each variable unset, empty, or set.
Envs ==
  [username : {Undefined, "", "tenant@indusmind"},
   password : {Undefined, "", "s3cret"}]
\* The environment of a deployment that starts.
ConfiguredEnv == [username |-> "tenant@indusmind", password |-> "s3cret"]

\* process.env.X || '' : the default of a constructor parameter.
OrEmpty(x) == IF x = Undefined \/ x = "" THEN "" ELSE x

\* The constructor's test with && for ||.
CredentialsMissing_both(u, p) == u = "" /\ p = ""

\* The constructor's test: !this.username || !this.password
CredentialsMissing(u, p) == u = "" \/ p = ""

\* No instance yet (module not loaded).
NoService == [state |-> "none", username |-> "", password |-> ""]

\* new ThingsboardAuthService(): the instance, or the throw.
NewAuthService(e) ==
  LET u == OrEmpty(e.username)
      p == OrEmpty(e.password)
  IN IF CredentialsMissing(u, p)
     THEN [state |-> "threw", username |-> "", password |-> ""]
     ELSE [state |-> "ready", username |-> u, password |-> p]

\* What the constructor's three console.log calls write, before its test.
ConstructorLog(e) ==
  {[label |-> "THINGSBOARD_USERNAME:", value |-> OrEmpty(e.username)],
   [label |-> "THINGSBOARD_PASSWORD:", value |-> OrEmpty(e.password)],
   [label |-> "THINGSBOARD_BASE_URL:", value |-> "https://portal.indusmind.net"]}

\* The methods of the instance can be called.
Ready == authService.state = "ready"

\* The services as initializeThingsboardServices() leaves them in a configured
\* deployment.
Init ==
  /\ now = 0
  /\ tokenPayload = NullPayload
  /\ tokenRefreshInterval = 0
  /\ timers = <<>>
  /\ task = [p \in Tasks |-> IdleTask]
  /\ env = ConfiguredEnv
  /\ authService = NewAuthService(ConfiguredEnv)
  /\ log = ConstructorLog(ConfiguredEnv)
  /\ devicesCache = NoCache
  /\ cacheTimestamp = 0
  /\ req = IdleReq

\* The process before the services module is loaded, in any environment.
InitBoot ==
  /\ now = 0
  /\ tokenPayload = NullPayload
  /\ tokenRefreshInterval = 0
  /\ timers = <<>>
  /\ task = [p \in Tasks |-> IdleTask]
  /\ env \in Envs
  /\ authService = NoService
  /\ log = {}
  /\ devicesCache = NoCache
  /\ cacheTimestamp = 0
  /\ req = IdleReq

\* ----------------------------------------------------------------- actions
\* Date.now() advances.
Tick ==
  /\ now < MaxNow
  /\ now' = now + TickMs
  /\ UNCHANGED <<tokenPayload, tokenRefreshInterval, timers, task>>
  /\ UNCHANGED nonAuthVars

\* A caller calls authenticate().
CallAuthenticate(p) ==
  /\ Ready
  /\ task[p].pc = "idle"
  /\ task' = [task EXCEPT ![p] =
       authenticateStart([IdleTask EXCEPT !.op = "authenticate", !.ctx = "entry"])]
  /\ UNCHANGED <<now, tokenPayload, tokenRefreshInterval, timers>>
  /\ UNCHANGED nonAuthVars

\* A caller calls refreshToken().
CallRefreshToken(p) ==
  /\ Ready
  /\ task[p].pc = "idle"
  /\ task' = [task EXCEPT ![p] =
       refreshTokenStart([IdleTask EXCEPT !.op = "refreshToken", !.ctx = "entry"],
                         tokenPayload)]
  /\ UNCHANGED <<now, tokenPayload, tokenRefreshInterval, timers>>
  /\ UNCHANGED nonAuthVars

\* A caller calls getValidToken().
CallGetValidToken(p) ==
  /\ Ready
  /\ task[p].pc = "idle"
  /\ task' = [task EXCEPT ![p] =
       getValidTokenStart(
         [IdleTask EXCEPT !.op = "getValidToken"], tokenPayload, now)]
  /\ UNCHANGED <<now, tokenPayload, tokenRefreshInterval, timers>>
  /\ UNCHANGED nonAuthVars

\* A caller calls getTimeseries(): getTimeseriesWithRetry(..., 0) up to its
\* first await.
CallGetTimeseries(p) ==
  /\ Ready
  /\ task[p].pc = "idle"
  /\ task' = [task EXCEPT ![p] =
       getValidTokenStart(
         [IdleTask EXCEPT !.op = "getTimeseries",
            !.startFresh = tokenPayload.present
                            /\ tokenPayload.expiresAt - now >= REFRESH_THRESHOLD],
         tokenPayload, now)]
  /\ UNCHANGED <<now, tokenPayload, tokenRefreshInterval, timers>>
  /\ UNCHANGED nonAuthVars

\* The login request of task p is answered: authenticate() after its await.
LoginResponse(p) ==
  /\ task[p].pc = "login"
  /\ \E o \in LoginOutcomes, exp \in ExpClaims(now) :
       LET t == [task[p] EXCEPT !.loginStatus = IF o.transport THEN 0 ELSE o.status]
       IN IF ~o.transport /\ o.status = 200
          THEN LET tok == NewToken
                   payload == StoredPayload(tok, tok, exp, now)
                   armed == setupAutoRefresh(timers, tokenRefreshInterval, payload, now)
               IN /\ tokenPayload' = payload
                  /\ timers' = armed.timers
                  /\ tokenRefreshInterval' = armed.handle
                  /\ task' = [task EXCEPT ![p] = RenewalReturned(t, tok, payload, now)]
          ELSE /\ exp = 0
               /\ task' = [task EXCEPT ![p] =
                    RenewalThrew(t, IF o.transport THEN ErrorResult("Transport", 0)
                                    ELSE ErrorResult("AuthFailed", o.status))]
               /\ UNCHANGED <<tokenPayload, timers, tokenRefreshInterval>>
  /\ UNCHANGED now
  /\ UNCHANGED nonAuthVars

\* The refresh request of task p is answered: refreshToken() after its await.
RefreshResponse(p) ==
  /\ task[p].pc = "refresh"
  /\ \E o \in RefreshOutcomes, exp \in ExpClaims(now) :
       IF ~o.transport /\ o.status = 200
       THEN LET tok == NewToken
                payload == StoredPayload(tok, tok, exp, now)
                t == [task[p] EXCEPT !.refreshOutcome = "200"]
            IN /\ tokenPayload' = payload
               /\ task' = [task EXCEPT ![p] = RenewalReturned(t, tok, payload, now)]
               /\ UNCHANGED <<timers, tokenRefreshInterval>>
       ELSE /\ exp = 0
            /\ task' = [task EXCEPT ![p] = authenticateStart(
                 [task[p] EXCEPT !.refreshOutcome =
                    IF o.transport THEN "transport"
                    ELSE IF o.status = 401 THEN "401" ELSE "other"])]
            /\ UNCHANGED <<tokenPayload, timers, tokenRefreshInterval>>
  /\ UNCHANGED now
  /\ UNCHANGED nonAuthVars

\* The retry test with <= for <.
ShouldRetry_inclusive(status, retryCount) == status = 401 /\ retryCount <= maxRetries

\* The retry test on any failure status, not on 401 alone.
ShouldRetry_anyError(status, retryCount) == status # 200 /\ retryCount < maxRetries

\* getTimeseriesWithRetry's retry test.
ShouldRetry(status, retryCount) == status = 401 /\ retryCount < maxRetries

\* The query of task p is answered: getTimeseriesWithRetry after client.get.
QueryResponse(p) ==
  /\ task[p].pc = "query"
  /\ \E o \in QueryOutcomes :
       LET t == [task[p] EXCEPT !.qHist = Append(@, IF o.transport THEN 0 ELSE o.status),
                                !.qToken = 0]
       IN task' = [task EXCEPT ![p] =
            CASE o.transport -> [t EXCEPT !.pc = "done", !.result = ErrorResult("Transport", 0)]
              [] o.status = 200 -> [t EXCEPT !.pc = "done", !.result = DataResult]
              [] ShouldRetry(o.status, t.retryCount) -> [t EXCEPT !.pc = "delay"]
              [] o.status = 404 -> [t EXCEPT !.pc = "done", !.result = ErrorResult("EntityNotFound", 404)]
              [] o.status = 400 -> [t EXCEPT !.pc = "done", !.result = ErrorResult("BadRequest", 400)]
              [] OTHER -> [t EXCEPT !.pc = "done", !.result = ErrorResult("ApiError", o.status)]]
  /\ UNCHANGED <<now, tokenPayload, tokenRefreshInterval, timers>>
  /\ UNCHANGED nonAuthVars

\* The 401 path without its refreshToken() call: straight to the retry.
DelayElapsed_noRefresh(p) ==
  /\ task[p].pc = "delay"
  /\ task' = [task EXCEPT ![p] =
       getValidTokenStart([task[p] EXCEPT !.retryCount = @ + 1], tokenPayload, now)]
  /\ UNCHANGED <<now, tokenPayload, tokenRefreshInterval, timers>>
  /\ UNCHANGED nonAuthVars

\* The 401 path with refreshToken() called but not awaited: the retry is sent
\* while that refresh is still in flight.
DelayElapsed_noAwait(p) ==
  /\ task[p].pc = "delay"
  /\ task' = [task EXCEPT ![p] =
       getValidTokenStart([task[p] EXCEPT !.retryCount = @ + 1, !.nRefresh = @ + 1],
                          tokenPayload, now)]
  /\ UNCHANGED <<now, tokenPayload, tokenRefreshInterval, timers>>
  /\ UNCHANGED nonAuthVars

\* The retry delay of task p is over: it calls refreshToken().
DelayElapsed(p) ==
  /\ task[p].pc = "delay"
  /\ task' = [task EXCEPT ![p] =
       refreshTokenStart([task[p] EXCEPT !.ctx = "forced"], tokenPayload)]
  /\ UNCHANGED <<now, tokenPayload, tokenRefreshInterval, timers>>
  /\ UNCHANGED nonAuthVars

\* Interval id fires: its callback calls refreshToken() and swallows a failure.
TimerFire(p) ==
  /\ task[p].pc = "idle"
  /\ \E id \in DOMAIN timers :
       /\ timers[id].due <= now
       /\ timers' = [timers EXCEPT ![id].due = DueAt(now, timers[id].delay)]
  /\ task' = [task EXCEPT ![p] =
       refreshTokenStart([IdleTask EXCEPT !.op = "timer", !.ctx = "entry"], tokenPayload)]
  /\ UNCHANGED <<now, tokenPayload, tokenRefreshInterval>>
  /\ UNCHANGED nonAuthVars

\* cleanup() that also discards the stored credential.
Cleanup_discards ==
  /\ Ready
  /\ IF tokenRefreshInterval # 0
     THEN /\ timers' = clearInterval(timers, tokenRefreshInterval)
          /\ tokenRefreshInterval' = 0
     ELSE UNCHANGED <<timers, tokenRefreshInterval>>
  /\ tokenPayload' = NullPayload
  /\ UNCHANGED <<now, task>>
  /\ UNCHANGED nonAuthVars

\* cleanup()
Cleanup ==
  /\ Ready
  /\ IF tokenRefreshInterval # 0
     THEN /\ timers' = clearInterval(timers, tokenRefreshInterval)
          /\ tokenRefreshInterval' = 0
     ELSE UNCHANGED <<timers, tokenRefreshInterval>>
  /\ UNCHANGED <<now, tokenPayload, task>>
  /\ UNCHANGED nonAuthVars

\* The caller has taken the result of a finished task.
Return(p) ==
  /\ task[p].pc = "done"
  /\ task' = [task EXCEPT ![p] = IdleTask]
  /\ UNCHANGED <<now, tokenPayload, tokenRefreshInterval, timers>>
  /\ UNCHANGED nonAuthVars

\* ------------------------------------------------ telemetry.router: actions
\* Date.now() advances by half the cache duration.
CacheTick ==
  /\ now < MaxTicks * CacheTickMs
  /\ now' = now + CacheTickMs
  /\ UNCHANGED <<tokenPayload, tokenRefreshInterval, timers, task>>
  /\ UNCHANGED nonAuthVars

\* GET /devices?refresh=...: the handler up to the await in getDevices, or to
\* its response when the cache is used.
GetDevicesRoute(refreshes) ==
  /\ req.pc = "idle"
  /\ \E refresh \in refreshes :
       LET forceRefresh == refresh.given /\ refresh.s = <<"t","r","u","e">>
           r == [IdleReq EXCEPT !.route = "devices", !.force = forceRefresh]
       IN req' = IF CacheUsable(forceRefresh, devicesCache, cacheTimestamp, now)
                 THEN Respond(r, 200, DevicesBody(devicesCache.list))
                 ELSE FetchDevices(r, "dir")
  /\ UNCHANGED <<authVars, bootVars, devicesCache, cacheTimestamp>>

\* GET /:deviceUUID/timeseries: the handler up to its first await that
\* suspends (the directory request of validateDevice, or getTimeseries), or to
\* its response.
GetDeviceTimeseries(uuids, raws) ==
  /\ req.pc = "idle"
  /\ \E uuid \in uuids, q \in raws :
       LET r == [IdleReq EXCEPT !.route = "device", !.uuid = uuid, !.q = q]
       IN req' =
            IF MissingRequired("device", q)
            THEN Respond(r, 400, ErrorBody("Missing required parameters"))
            ELSE IF CacheUsable(FALSE, devicesCache, cacheTimestamp, now)
                 THEN IF HasDevice(devicesCache.list, uuid)
                      THEN ParseAndCall(r)
                      ELSE FetchDevices(r, "dir2")
                 ELSE FetchDevices(r, "dir1")
  /\ UNCHANGED <<authVars, bootVars, devicesCache, cacheTimestamp>>

\* GET /timeseries: the handler up to the await of getTimeseries, or to its
\* response.
GetLegacyTimeseries(raws) ==
  /\ req.pc = "idle"
  /\ \E q \in raws :
       LET r == [IdleReq EXCEPT !.route = "legacy", !.q = q]
       IN req' = IF MissingRequired("legacy", q)
                 THEN Respond(r, 400, ErrorBody("Missing required parameters"))
                 ELSE ParseAndCall(r)
  /\ UNCHANGED <<authVars, bootVars, devicesCache, cacheTimestamp>>

\* The directory answers the request of getDevices: getDevices after its
\* await, then its caller. GET /devices responds; validateDevice goes on to
\* the forced second attempt (a new request) when the first one threw, and
\* to the rest of the handler when the device is found.
DirectoryResponse ==
  /\ req.pc \in {"dir", "dir1", "dir2"}
  /\ \E o \in DirectoryOutcomes :
       LET g == getDevicesEnd(o, devicesCache, cacheTimestamp, now)
           r == [req EXCEPT !.dirAnswer = o]
       IN /\ devicesCache' = g.cache
          /\ cacheTimestamp' = g.stamp
          /\ req' =
               CASE req.pc = "dir" ->
                      IF g.threw THEN Respond(r, 502, ErrorBody(FetchFailedMsg))
                      ELSE Respond(r, 200, DevicesBody(g.list))
                 [] req.pc = "dir1" ->
                      IF ~g.threw /\ HasDevice(g.list, req.uuid) THEN ParseAndCall(r)
                      ELSE FetchDevices(r, "dir2")
                 [] OTHER ->
                      IF g.threw
                      THEN Respond(r, CatchStatus(req.route, FetchFailedMsg),
                                   ErrorBody(FetchFailedMsg))
                      ELSE IF HasDevice(g.list, req.uuid) THEN ParseAndCall(r)
                      ELSE Respond(r, CatchStatus(req.route, DeviceNotFoundMsg),
                                   ErrorBody(DeviceNotFoundMsg))
  /\ UNCHANGED <<authVars, bootVars>>

\* getTimeseries returns or throws: the handler's success response, or its
\* catch block.
TimeseriesReturned ==
  /\ req.pc = "ts"
  /\ \E o \in TimeseriesOutcomes :
       LET r == [req EXCEPT !.tsResult = o]
       IN req' = IF o = DataResult THEN Respond(r, 200, TimeseriesBody)
                 ELSE Respond(r, CatchStatus(req.route, TimeseriesErrorMsg(o)),
                              ErrorBody(TimeseriesErrorMsg(o)))
  /\ UNCHANGED <<authVars, bootVars, devicesCache, cacheTimestamp>>

\* clearCache(): callable between any two steps of a handler.
ClearCache ==
  /\ devicesCache' = NoCache
  /\ cacheTimestamp' = 0
  /\ UNCHANGED <<authVars, bootVars, req>>

\* The response has been sent; the next request may come.
RouteReturn ==
  /\ req.pc = "done"
  /\ req' = IdleReq
  /\ UNCHANGED <<authVars, bootVars, devicesCache, cacheTimestamp>>

\* ------------------------------------------- health and customer routes
\* The body of GET /health.
HealthBody == [status |-> "ok"]

\* GET /health made to depend on a credential being held.
GetHealth_needsCredential ==
  /\ Ready
  /\ req.pc = "idle"
  /\ req' = Respond([IdleReq EXCEPT !.route = "health"],
                    IF tokenPayload.present THEN 200 ELSE 503, HealthBody)
  /\ UNCHANGED <<authVars, bootVars, devicesCache, cacheTimestamp>>

\* GET /health, once the routes module has loaded: the handler answers at once.
GetHealth ==
  /\ Ready
  /\ req.pc = "idle"
  /\ req' = Respond([IdleReq EXCEPT !.route = "health"], 200, HealthBody)
  /\ UNCHANGED <<authVars, bootVars, devicesCache, cacheTimestamp>>

\* The bodies the customer API may answer: those of the directory, and an
\* object whose data member is a non-empty string or an object.
CustomerBodies ==
  DirectoryBodies \cup {JObject("string", <<"o","o","p","s">>), JObject("object", <<>>)}
CustomerOutcomes ==
  {[rejected |-> FALSE, body |-> b] : b \in CustomerBodies}
    \cup {[rejected |-> TRUE, body |-> JNoBody]}

\* The truthiness of a JSON value (x || []).
Truthy(v) == v.type \in {"array", "object"} \/ (v.type = "string" /\ v.items # <<>>)

\* getAllIndusmindCustomerDevices after its await: the value it returns, or
\* its throw (a rejected request; reading .data of null).
getAllIndusmindCustomerDevices(o) ==
  LET body == o.body
      data == IF body.type = "object" /\ body.hasData
              THEN JValue(body.dataType, body.dataItems)
              ELSE JValue("undefined", <<>>)
  IN IF o.rejected \/ body.type = "null" THEN [threw |-> TRUE, value |-> JNoBody]
     ELSE IF body.type = "array" THEN [threw |-> FALSE, value |-> body]
     ELSE [threw |-> FALSE, value |-> IF Truthy(data) THEN data ELSE JArray(<<>>)]

\* devices.length
LengthOf(v) == IF v.type \in {"array", "string"} THEN Num(Len(v.items)) ELSE NumUndefined

\* res.json({success: true, data: devices, count: devices.length, timestamp})
CustomerBody(v, t) ==
  [success |-> TRUE, data |-> v, count |-> LengthOf(v), timestamp |-> t]

\* errorHandler: res.status(500).json({message: "Internal Server Error"})
ErrorHandlerBody == [message |-> "Internal Server Error"]

\* GET /customer/devices: getCustomerDevices up to the await of the customer
\* API.
GetCustomerDevices ==
  /\ req.pc = "idle"
  /\ req' = [IdleReq EXCEPT !.route = "customer", !.pc = "customer"]
  /\ UNCHANGED <<authVars, bootVars, devicesCache, cacheTimestamp>>

\* The customer API answers: the controller responds, or hands the error to
\* the error handler.
CustomerResponse ==
  /\ req.pc = "customer"
  /\ \E o \in CustomerOutcomes :
       LET g == getAllIndusmindCustomerDevices(o)
           r == [req EXCEPT !.dirAnswer = o]
       IN req' = IF g.threw THEN Respond(r, 500, ErrorHandlerBody)
                 ELSE Respond(r, 200, CustomerBody(g.value, now))
  /\ UNCHANGED <<authVars, bootVars, devicesCache, cacheTimestamp>>

\* The services module is loaded: initializeThingsboardServices() runs the
\* constructor.
Construct ==
  /\ authService.state = "none"
  /\ log' = log \cup ConstructorLog(env)
  /\ authService' = NewAuthService(env)
  /\ UNCHANGED <<authVars, env, routeVars>>

\* The auth service under two overlapping users and its interval.
Next ==
  \/ Tick
  \/ Cleanup
  \/ \E p \in CallerTasks : CallAuthenticate(p)
  \/ \E p \in CallerTasks : CallRefreshToken(p)
  \/ \E p \in CallerTasks : CallGetValidToken(p)
  \/ \E p \in CallerTasks : TimerFire(p)
  \/ \E p \in CallerTasks : LoginResponse(p)
  \/ \E p \in CallerTasks : RefreshResponse(p)
  \/ \E p \in CallerTasks : Return(p)

Spec == Init /\ [][Next]_vars

\* One getTimeseries request at a time, with the interval's callback as the
\* only other user of the auth service.
TimerTask == "c1"
NextQuery ==
  \/ Tick
  \/ \E p \in QueryTasks : CallGetTimeseries(p)
  \/ \E p \in QueryTasks : QueryResponse(p)
  \/ \E p \in QueryTasks : DelayElapsed(p)
  \/ \E p \in QueryTasks \cup {TimerTask} : LoginResponse(p)
  \/ \E p \in QueryTasks \cup {TimerTask} : RefreshResponse(p)
  \/ \E p \in QueryTasks \cup {TimerTask} : Return(p)
  \/ TimerFire(TimerTask)

SpecQuery == Init /\ [][NextQuery]_vars

\* Two overlapping renewals in a known order: a call on EarlierTask (by a
\* caller or by the interval) starts only while LaterTask is idle, a call on
\* LaterTask only while the one on EarlierTask is in flight.
EarlierTask == "c1"
LaterTask == "c2"
NextOverlap ==
  \/ Tick
  \/ task[LaterTask].pc = "idle" /\ CallAuthenticate(EarlierTask)
  \/ task[LaterTask].pc = "idle" /\ CallRefreshToken(EarlierTask)
  \/ task[LaterTask].pc = "idle" /\ TimerFire(EarlierTask)
  \/ task[EarlierTask].pc \in {"login", "refresh"} /\ CallAuthenticate(LaterTask)
  \/ task[EarlierTask].pc \in {"login", "refresh"} /\ CallRefreshToken(LaterTask)
  \/ \E p \in CallerTasks : LoginResponse(p)
  \/ \E p \in CallerTasks : RefreshResponse(p)
  \/ \E p \in CallerTasks : Return(p)

SpecOverlap == Init /\ [][NextOverlap]_vars

\* Start-up in any environment, then one user of the auth service and its
\* interval.
BootTask == "c1"
NextBoot ==
  \/ Construct
  \/ Tick
  \/ Cleanup
  \/ CallAuthenticate(BootTask)
  \/ CallRefreshToken(BootTask)
  \/ CallGetValidToken(BootTask)
  \/ TimerFire(BootTask)
  \/ LoginResponse(BootTask)
  \/ RefreshResponse(BootTask)
  \/ Return(BootTask)

SpecBoot == InitBoot /\ [][NextBoot]_vars

\* The routes of the telemetry router over the device directory, one request
\* at a time.
NextRoute ==
  \/ CacheTick
  \/ GetDevicesRoute(RefreshRaws)
  \/ GetDeviceTimeseries(DeviceUUIDs, RouteRaws)
  \/ GetLegacyTimeseries(RouteRaws)
  \/ DirectoryResponse
  \/ TimeseriesReturned
  \/ GetCustomerDevices
  \/ CustomerResponse
  \/ ClearCache
  \/ RouteReturn

SpecRoute == Init /\ [][NextRoute]_vars

\* The services with the device list already cached (after a GET /devices).
InitCached ==
  /\ now = 0
  /\ tokenPayload = NullPayload
  /\ tokenRefreshInterval = 0
  /\ timers = <<>>
  /\ task = [p \in Tasks |-> IdleTask]
  /\ env = ConfiguredEnv
  /\ authService = NewAuthService(ConfiguredEnv)
  /\ log = ConstructorLog(ConfiguredEnv)
  /\ devicesCache = Cached(<<"dev-A">>)
  /\ cacheTimestamp = 0
  /\ req = IdleReq

\* Both timeseries routes over every combination of raw parameters, for a
\* device of the cached list.
NextValidate ==
  \/ GetDeviceTimeseries({"dev-A"}, ValidatorRaws)
  \/ GetLegacyTimeseries(ValidatorRaws)
  \/ TimeseriesReturned
  \/ RouteReturn

SpecValidate == InitCached /\ [][NextValidate]_vars

\* Start-up in any environment, then GET /health and GET /devices while one
\* user of the auth service and the interval change the credential.
NextHealth ==
  \/ Construct
  \/ Tick
  \/ CallGetValidToken(BootTask)
  \/ TimerFire(BootTask)
  \/ LoginResponse(BootTask)
  \/ RefreshResponse(BootTask)
  \/ Return(BootTask)
  \/ GetHealth
  \/ GetDevicesRoute({Absent})
  \/ DirectoryResponse
  \/ RouteReturn

SpecHealth == InitBoot /\ [][NextHealth]_vars

\* ================================================================ claims
\* A renewal request (login or refresh) of task p is in flight.
Renewing(p) == task[p].pc \in {"login", "refresh"}
\* Every query of task p was answered 401.
AllUnauthorized(p) ==
  /\ task[p].qHist # <<>>
  /\ \A i \in 1..Len(task[p].qHist) : task[p].qHist[i] = 401
\* The interval the service holds is armed from payload at time t.
ArmedFrom(tms, h, payload, t) ==
  /\ h # 0
  /\ DOMAIN tms = {h}
  /\ tms[h].delay = refreshDelay(payload, t)
  /\ tms[h].due = DueAt(t, tms[h].delay)

\* C1: of the getValidToken() calls that found the credential absent or
\* expiring, at most one has a login or refresh request in flight at any time.
C1_SingleFlightRenewal ==
  Cardinality({p \in Tasks : Renewing(p) /\ task[p].ctx = "gvt"}) <= 1

\* C2 as stated: a getTimeseries call that started with a fresh credential and
\* whose queries were answered 401 then 200 made exactly one refreshToken()
\* call and returned the data.
C2_OneRefreshThenSuccess ==
  \A p \in QueryTasks :
    (task[p].pc = "done" /\ task[p].startFresh /\ task[p].qHist = <<401, 200>>)
      => (task[p].nRefresh = 1 /\ task[p].result = DataResult)

\* C2 amended: the same, provided the credential stored by that refresh had at
\* least 60000 ms remaining when the retry asked getValidToken() for its token.
C2_OneRefreshThenSuccess_Amended ==
  \A p \in QueryTasks :
    (task[p].pc = "done" /\ task[p].startFresh /\ task[p].qHist = <<401, 200>>
       /\ ~task[p].sawStale)
      => (task[p].nRefresh = 1 /\ task[p].result = DataResult)

C2_Witness ==
  \E p \in QueryTasks :
    /\ task[p].pc = "done" /\ task[p].startFresh /\ task[p].qHist = <<401, 200>>
    /\ ~task[p].sawStale /\ task[p].nRefresh = 1 /\ task[p].result = DataResult

\* C3 as stated: a getTimeseries call whose every query was answered 401 and
\* whose renewals all succeeded ends in an error after exactly 3
\* refreshToken() calls (and 4 queries).
C3_ThreeRefreshesThenFailure ==
  \A p \in QueryTasks :
    (task[p].pc = "done" /\ AllUnauthorized(p)
       /\ task[p].result.kind \notin {"AuthFailed", "Transport"})
      => (task[p].nRefresh = 3 /\ Len(task[p].qHist) = 4
          /\ task[p].result = ErrorResult("ApiError", 401))

\* C3 amended: the same, provided no attempt's getValidToken() found the
\* credential with less than 60000 ms remaining.
C3_ThreeRefreshesThenFailure_Amended ==
  \A p \in QueryTasks :
    (task[p].pc = "done" /\ AllUnauthorized(p) /\ ~task[p].sawStale
       /\ task[p].result.kind \notin {"AuthFailed", "Transport"})
      => (task[p].nRefresh = 3 /\ Len(task[p].qHist) = 4
          /\ task[p].result = ErrorResult("ApiError", 401))

C3_Witness ==
  \E p \in QueryTasks :
    /\ task[p].pc = "done" /\ task[p].qHist = <<401, 401, 401, 401>>
    /\ ~task[p].sawStale /\ task[p].nRefresh = 3
    /\ task[p].result = ErrorResult("ApiError", 401)

\* C4: a getValidToken() call made while the credential has at least 60000 ms
\* remaining returns the cached access token at once, sends no request, and
\* leaves the credential, the interval and every other task as they were.
C4_FreshTokenFromCache ==
  [][\A p \in CallerTasks :
       (/\ task[p].pc = "idle"
        /\ task'[p].op = "getValidToken"
        /\ tokenPayload.present
        /\ tokenPayload.expiresAt - now >= REFRESH_THRESHOLD)
       => (/\ task'[p].pc = "done"
           /\ task'[p].result = TokenResult(tokenPayload.token)
           /\ task'[p].nRefresh = 0
           /\ \A q \in Tasks \ {p} : task'[q] = task[q]
           /\ UNCHANGED <<tokenPayload, tokenRefreshInterval, timers>>)]_vars

\* Two back-to-back calls answered from the cache, the credential sitting
\* exactly on the threshold.
C4_Witness ==
  /\ tokenPayload.present
  /\ tokenPayload.expiresAt - now = REFRESH_THRESHOLD
  /\ \A p \in CallerTasks :
       /\ task[p].op = "getValidToken" /\ task[p].pc = "done"
       /\ task[p].nRefresh = 0 /\ task[p].loginStatus = 0
       /\ task[p].result = TokenResult(tokenPayload.token)

\* C5: a getValidToken() call made while the credential has less than 60000 ms
\* remaining calls refreshToken() (it does not return), and the token it
\* finally returns is the one that call stored, never the one that was cached.
C5_StaleTokenRefreshed ==
  [][\A p \in CallerTasks :
       /\ (/\ task[p].pc = "idle"
           /\ task'[p].op = "getValidToken"
           /\ tokenPayload.present
           /\ tokenPayload.expiresAt - now < REFRESH_THRESHOLD)
          => (task'[p].nRefresh = 1 /\ Renewing(p)')
       /\ (/\ task[p].op = "getValidToken" /\ task[p].nRefresh = 1
           /\ Renewing(p) /\ task'[p].pc = "done"
           /\ task'[p].result.kind = "token")
          => (/\ task'[p].result.val = tokenPayload'.token
              /\ task'[p].result.val # tokenPayload.token)]_vars

\* getValidToken() is refreshing a credential whose expiry is already past.
C5_Witness ==
  \E p \in CallerTasks :
    /\ task[p].op = "getValidToken" /\ task[p].pc = "refresh"
    /\ task[p].nRefresh = 1
    /\ tokenPayload.expiresAt < now

\* C6: a refreshToken() whose refresh request is answered with a status other
\* than 200 or 401 does not go on to a login.
C6_RefreshOtherStatusFails ==
  \A p \in Tasks : task[p].refreshOutcome = "other" => task[p].pc # "login"

\* C7: a login sent from inside refreshToken() has one of exactly three
\* causes: no refresh token held, refresh answered 401, refresh request failed
\* in transport.
C7_FallbackCauses ==
  \A p \in Tasks :
    (task[p].pc = "login" /\ task[p].refreshOutcome # "none")
      => task[p].refreshOutcome \in {"noToken", "401", "transport"}

\* C8: the step in which a refresh request is answered 200 replaces the
\* credential and leaves the interval armed from the new credential's expiry.
C8_RefreshRearmsSchedule ==
  [][\A p \in Tasks :
       (task[p].pc = "refresh" /\ task'[p].refreshOutcome = "200")
       => (/\ tokenPayload'.present
           /\ tokenPayload'.token # tokenPayload.token
           /\ ArmedFrom(timers', tokenRefreshInterval', tokenPayload', now))]_vars

\* C9: the step in which a login request is answered: on 200 a new credential
\* is stored, the interval is armed from it and the new access token is
\* returned; otherwise the call fails with an error carrying the status, and
\* the credential and the interval are as before.
C9_AuthenticateOutcome ==
  [][\A p \in CallerTasks :
       (task[p].pc = "login" /\ task'[p].pc # "login")
       => IF task'[p].loginStatus = 200
          THEN /\ tokenPayload'.present
               /\ tokenPayload'.token # tokenPayload.token
               /\ ArmedFrom(timers', tokenRefreshInterval', tokenPayload', now)
               /\ task'[p].pc = "done"
               /\ task[p].op # "timer" => task'[p].result = TokenResult(tokenPayload'.token)
          ELSE /\ UNCHANGED <<tokenPayload, tokenRefreshInterval, timers>>
               /\ task'[p].pc = "done"
               /\ task[p].op # "timer" =>
                    /\ IsError(task'[p].result)
                    /\ task'[p].result.status = task'[p].loginStatus
                    /\ task'[p].loginStatus # 0 => task'[p].result.kind = "AuthFailed"]_vars

\* authenticate() has failed with 401 while a credential and an armed interval
\* were held.
C9_Witness ==
  \E p \in CallerTasks :
    /\ task[p].op = "authenticate" /\ task[p].pc = "done"
    /\ task[p].result = ErrorResult("AuthFailed", 401)
    /\ tokenPayload.present
    /\ tokenRefreshInterval # 0

\* C10: the event loop never holds more than one interval of the service, and
\* the one it holds is the one the service has the handle of.
C10_AtMostOneTimer ==
  /\ Cardinality(DOMAIN timers) <= 1
  /\ tokenRefreshInterval = 0 => DOMAIN timers = {}
  /\ tokenRefreshInterval # 0 => DOMAIN timers = {tokenRefreshInterval}

\* The interval has been replaced at least once (a first interval gets handle
\* 1; handle 2 is given only while handle 1 is still held), and a renewal is
\* in flight.
C10_Witness ==
  /\ tokenRefreshInterval = 2
  /\ DOMAIN timers = {2}
  /\ \E p \in CallerTasks : Renewing(p)

\* The last status a query of task t was answered with (0 = transport failure).
LastStatus(t) == t.qHist[Len(t.qHist)]

\* C11: a query answered with anything but 200 or 401 (a 404, a 400, another
\* status, or a transport failure) ends getTimeseries with an error in that
\* same step, with no refreshToken() call and no further query; so a retry
\* (the wait before the forced refresh) only ever follows a 401, and every
\* query before the last one of a call was answered 401.
C11_Only401Retries ==
  [][\A p \in QueryTasks :
       /\ (task[p].pc = "query" /\ task'[p].pc # "query"
             /\ LastStatus(task'[p]) \notin {200, 401})
            => /\ task'[p].pc = "done"
               /\ IsError(task'[p].result)
               /\ task'[p].result.status = LastStatus(task'[p])
               /\ task'[p].nRefresh = task[p].nRefresh
               /\ Len(task'[p].qHist) = Len(task[p].qHist) + 1
       /\ (task[p].pc = "query" /\ task'[p].pc = "delay")
            => LastStatus(task'[p]) = 401
       /\ \A i \in 1..(Len(task[p].qHist) - 1) : task[p].qHist[i] = 401]_vars

\* getTimeseries has ended on a 404 to its only query, without any refresh.
C11_Witness ==
  \E p \in QueryTasks :
    /\ task[p].pc = "done"
    /\ task[p].qHist = <<404>>
    /\ task[p].nRefresh = 0
    /\ task[p].result = ErrorResult("EntityNotFound", 404)

\* C12: when an interval fires, its callback calls refreshToken() whatever
\* lifetime the credential has left; when that renewal fails, the callback
\* ends with nothing thrown and the stored credential is left as it was.
C12_TimerRefreshSwallowed ==
  [][\A p \in CallerTasks :
       /\ (task[p].pc = "idle" /\ task'[p].op = "timer")
            => (Renewing(p)' /\ task'[p].nRefresh = 1)
       /\ (task[p].op = "timer" /\ task[p].pc = "login" /\ task'[p].pc = "done"
             /\ task'[p].loginStatus # 200)
            => /\ task'[p].result = NoResult
               /\ tokenPayload' = tokenPayload
       /\ task[p].op = "timer" => ~IsError(task[p].result)]_vars

\* The interval's callback has ended after a failed renewal, while the stored
\* credential still has more than the refresh threshold left.
C12_Witness ==
  \E p \in CallerTasks :
    /\ task[p].op = "timer" /\ task[p].pc = "done"
    /\ task[p].loginStatus = 401
    /\ task[p].result = NoResult
    /\ tokenPayload.present
    /\ ~ExpiringSoon(tokenPayload, now)

\* C18: an interval is armed with max(expiresAt - now - 120000, 60000): never
\* less than 60000 ms, and the time until 2 minutes before expiry when that is
\* at least 60000 ms.
C18_RefreshDelay ==
  [][(tokenRefreshInterval' # tokenRefreshInterval /\ tokenRefreshInterval' # 0)
       => LET d == timers'[tokenRefreshInterval'].delay
              lead == tokenPayload'.expiresAt - now - 120000
          IN /\ d >= 60000
             /\ d >= lead
             /\ d \in {lead, 60000}]_vars

\* An interval armed from a credential that had already expired, at the floor.
C18_Witness ==
  /\ now = 0
  /\ tokenRefreshInterval # 0
  /\ tokenPayload.present
  /\ tokenPayload.token = 1
  /\ tokenPayload.expiresAt < 0
  /\ timers[tokenRefreshInterval].delay = 60000

\* C17: no entry of the log carries the configured password (the log sites
\* other than the constructor's write no configuration value and no token).
C17_NoCredentialInLog ==
  \A e \in log : OrEmpty(env.password) # "" => e.value # OrEmpty(env.password)

\* C19: the constructor throws exactly when the username or the password is
\* unset or empty, and otherwise yields an instance; either way it sends
\* nothing and leaves no credential and no interval; and while there is no
\* instance, no request is in flight and no credential or interval exists.
C19_ConstructorFailsFast ==
  [][/\ (authService.state = "none" /\ authService'.state # "none")
          => /\ authService'.state = "threw"
                  <=> (env.username \in {Undefined, ""} \/ env.password \in {Undefined, ""})
             /\ authService'.state \in {"threw", "ready"}
             /\ tokenPayload' = NullPayload
             /\ tokenRefreshInterval' = 0 /\ timers' = <<>>
             /\ \A p \in Tasks : task'[p] = IdleTask
     /\ authService.state # "ready"
          => /\ tokenPayload = NullPayload
             /\ tokenRefreshInterval = 0 /\ timers = <<>>
             /\ \A p \in Tasks : task[p] = IdleTask]_vars

\* Construction has failed with the username set and the password unset.
C19_Witness ==
  /\ authService.state = "threw"
  /\ env.username = "tenant@indusmind"
  /\ env.password = Undefined
  /\ tokenPayload = NullPayload /\ timers = <<>>

\* A timeseries handler has responded.
Answered == req.pc = "done" /\ req.route \in {"device", "legacy"}
\* The raw query has every required parameter and numeric timestamps, but
\* startTs >= endTs or no key is left after trimming.
FailsValidation(route, q) ==
  /\ ~MissingRequired(route, q)
  /\ ~isNaN(parseInt(q.startTs.s)) /\ ~isNaN(parseInt(q.endTs.s))
  /\ \/ parseInt(q.startTs.s).n >= parseInt(q.endTs.s).n
     \/ KeyArray(q.keys.s) = <<>>

\* C13: on both timeseries routes a request with startTs >= endTs or with no
\* key after trimming is answered 400 without any request having been sent to
\* the device directory and without getTimeseries having been called.
C13_ValidationBeforeNetwork ==
  (Answered /\ FailsValidation(req.route, req.q))
    => (req.status = 400 /\ req.dirCalls = 0 /\ req.tsCalls = 0)

\* C14: on both timeseries routes an upstream 404 or an unknown device is
\* answered 404, an upstream 400 is answered 400, and every other failure of
\* getTimeseries or of the directory is answered 502.
C14_ErrorStatusByKind ==
  (Answered /\ req.body.kind = "error" /\ (req.tsCalls > 0 \/ req.dirCalls > 0))
    => /\ (req.tsResult.kind = "EntityNotFound" \/ req.body.error = DeviceNotFoundMsg)
            => req.status = 404
       /\ req.tsResult.kind = "BadRequest" => req.status = 400
       /\ (req.tsResult.kind \in {"Transport", "AuthFailed", "ApiError"}
             \/ req.body.error = FetchFailedMsg)
            => req.status = 502

\* An optional number as getTimeseries may be given it: undefined or >= 1.
AbsentOrPositive(x) == x.kind = "undefined" \/ (x.kind = "number" /\ x.n >= 1)

\* C15: whenever a timeseries handler calls getTimeseries, the interval and
\* the limit it passes are each undefined or a positive integer.
C15_PositiveIntervalAndLimit ==
  req.tsCalls > 0
    => (AbsentOrPositive(req.args.interval) /\ AbsentOrPositive(req.args.limit))

\* C16: whenever a timeseries handler calls getTimeseries, the agg and
\* orderBy it passes are in upper case, and the strict-types flag it passes is
\* true exactly when the raw flag is "true" in any letter case, undefined
\* otherwise.
C16_CanonicalRequest ==
  req.tsCalls > 0
    => /\ req.args.agg.given => req.args.agg.s \in validAgg
       /\ req.args.orderBy.given => req.args.orderBy.s \in validOrder
       /\ req.args.useStrictDataTypes \in {"true", "undefined"}
       /\ req.args.useStrictDataTypes = "true"
            <=> req.q.useStrictDataTypes \in
                  {Str(<<"t","r","u","e">>), Str(<<"T","R","U","E">>)}

\* C20: when the directory answers getDevices with a device list, bare or under
\* data, that list is cached and returned; any other answer is a fetch
\* failure, which leaves the cache alone and makes getDevices return the
\* cached list if there is one and throw otherwise. GET /devices answers 200
\* with the list getDevices returned and its length, or 502 when it threw.
C20_DeviceListShapes ==
  [][/\ (req.pc \in {"dir", "dir1", "dir2"} /\ req'.pc # req.pc)
          => LET o == req'.dirAnswer
                 isList == ~o.rejected
                             /\ \E l \in DeviceLists : o.body \in {JArray(l), JObject("array", l)}
             IN /\ \A l \in DeviceLists :
                     (~o.rejected /\ o.body \in {JArray(l), JObject("array", l)})
                       => /\ devicesCache' = Cached(l)
                          /\ cacheTimestamp' = now
                          /\ req.pc = "dir"
                               => (req'.status = 200 /\ req'.body.data = l)
                /\ ~isList
                     => /\ UNCHANGED <<devicesCache, cacheTimestamp>>
                        /\ req.pc = "dir"
                             => IF devicesCache.present
                                THEN req'.status = 200 /\ req'.body.data = devicesCache.list
                                ELSE req'.status = 502
     /\ (req.route = "devices" /\ req.pc = "done")
          => \/ /\ req.status = 200
                /\ req.body.success /\ req.body.kind = "devices"
                /\ req.body.count = Len(req.body.data)
             \/ /\ req.status = 502
                /\ ~req.body.success /\ req.body.kind = "error"]_vars

\* GET /devices has answered with the two devices the directory sent under
\* data, and they are cached.
C20_Witness ==
  /\ req.route = "devices" /\ req.pc = "done" /\ req.status = 200
  /\ req.dirAnswer.body = JObject("array", <<"dev-A", "dev-B">>)
  /\ req.body.data = <<"dev-A", "dev-B">> /\ req.body.count = 2
  /\ devicesCache = Cached(<<"dev-A", "dev-B">>)

\* C21: GET /health is answered in the step that receives it, with 200 and
\* {status: "ok"}, whatever the credential, the interval and the device cache
\* are.
C21_HealthAlwaysOk ==
  [][/\ (req.pc = "idle" /\ req'.route = "health")
          => (req'.pc = "done" /\ req'.status = 200 /\ req'.body = HealthBody)
     /\ (req.route = "health" /\ req.pc = "done")
          => (req.status = 200 /\ req.body = HealthBody)]_vars

\* GET /health has answered 200 while no credential is held and a login is in
\* flight.
C21_Witness ==
  /\ req.route = "health" /\ req.pc = "done" /\ req.status = 200
  /\ ~tokenPayload.present
  /\ task[BootTask].pc = "login"

\* C22: GET /customer/devices answers 200 with success, an array as data and
\* its length as count, or 500 when the call to the customer API failed; it
\* answers nothing else.
C22_CustomerDevicesOutcomes ==
  (req.route = "customer" /\ req.pc = "done")
    => IF req.status = 200
       THEN /\ req.body.success
            /\ req.body.data.type = "array"
            /\ req.body.count = Num(Len(req.body.data.items))
       ELSE req.status = 500 /\ req.body = ErrorHandlerBody

\* C23: within one getTimeseries call the retry loop is sequential. The query
\* of a retry (retryCount >= 1) is sent only in the step in which a renewal of
\* that call completes, after at least as many refreshToken() calls as retries;
\* and whenever a query is sent, every earlier query of the call has been
\* answered, so at most one is in flight.
C23_SequentialRetry ==
  [][\A p \in QueryTasks :
       (task[p].pc # "query" /\ task'[p].pc = "query")
         => /\ Len(task'[p].qHist) = task'[p].retryCount
            /\ task'[p].retryCount >= 1
                 => /\ Renewing(p)
                    /\ ~Renewing(p)'
                    /\ task'[p].nRefresh >= task'[p].retryCount]_vars

\* The second query of a call is in flight, after one 401 and one completed
\* forced refresh.
C23_Witness ==
  \E p \in QueryTasks :
    /\ task[p].pc = "query"
    /\ task[p].retryCount = 1
    /\ task[p].qHist = <<401>>
    /\ task[p].nRefresh = 1

\* C24: whenever a query attempt is sent, first or retry, the call has just
\* been through getValidToken(), and the token it sends is the access token
\* of the stored credential at that moment: never one captured before a
\* refresh (its own, the interval's) replaced the credential.
C24_TokenPerAttempt ==
  [][\A p \in QueryTasks :
       (task[p].pc # "query" /\ task'[p].pc = "query")
         => /\ task'[p].ctx = "gvt"
            /\ tokenPayload'.present
            /\ task'[p].qToken = tokenPayload'.token]_vars

\* A retry is in flight whose getValidToken() refreshed once more after the
\* forced refresh, and it carries the token of the stored credential.
C24_Witness ==
  \E p \in QueryTasks :
    /\ task[p].pc = "query"
    /\ task[p].retryCount = 1
    /\ task[p].sawStale
    /\ task[p].nRefresh = 2
    /\ task[p].qToken = tokenPayload.token

\* C25 as stated: a 401 with retries remaining is followed at once by the
\* forced refreshToken(), and the end of the wait by the re-issued query with
\* the retry count incremented.
C25_RefreshThenWait ==
  [][\A p \in QueryTasks :
       /\ (task[p].pc = "query" /\ task'[p].pc \notin {"query", "done"})
            => Renewing(p)'
       /\ (task[p].pc = "delay" /\ task'[p].pc # "delay")
            => /\ task'[p].pc = "query"
               /\ task'[p].retryCount = task[p].retryCount + 1]_vars

\* C26 as stated: a getTimeseries call that ends on the failure of a forced
\* refreshToken() has used up its retries.
C26_FailureAfterExhaustion ==
  \A p \in QueryTasks :
    (task[p].pc = "done" /\ task[p].ctx = "forced" /\ IsError(task[p].result))
      => task[p].retryCount = maxRetries

\* The directory's answer o is a failed fetch: the request was rejected, or
\* the payload (unwrapped from { data }) is not an array.
FetchFailed(o) ==
  \/ o.rejected
  \/ o.body.type \notin {"array", "object"}
  \/ o.body.type = "object" /\ ~(o.body.hasData /\ o.body.dataType = "array")

\* C27: GET /devices without refresh=true answers from the cache, with no
\* directory call, exactly when a list is cached and less than 300000 ms old;
\* with refresh=true, with no cache (never filled, or cleared by clearCache())
\* or with a cache 300000 ms old or older it sends one directory request, and
\* has sent exactly one when it answers. validateDevice's first getDevices
\* call follows the same rule.
C27_CacheDecidesDirectoryCall ==
  [][/\ (req.pc = "idle" /\ req'.route = "devices")
         => IF ~req'.force /\ devicesCache.present
                 /\ now - cacheTimestamp < cacheDuration
            THEN /\ req'.pc = "done"
                 /\ req'.dirCalls = 0
                 /\ req'.body = DevicesBody(devicesCache.list)
            ELSE /\ req'.pc = "dir"
                 /\ req'.dirCalls = 1
     /\ (req.route = "devices" /\ req.pc = "dir" /\ req'.route = "devices")
         => req'.dirCalls = 1
     /\ (req.pc = "idle" /\ req'.route = "device" /\ req'.pc # "done")
         => IF devicesCache.present /\ now - cacheTimestamp < cacheDuration
            THEN req'.pc = "ts" \/ (req'.pc = "dir2" /\ req'.dirCalls = 1)
            ELSE req'.pc = "dir1" /\ req'.dirCalls = 1
     /\ (devicesCache.present /\ ~devicesCache'.present)
         => cacheTimestamp' = 0]_vars

\* GET /devices without refresh has sent a directory request although a list
\* is cached: the list is exactly 300000 ms old.
C27_Witness ==
  /\ req.route = "devices"
  /\ req.pc = "dir"
  /\ ~req.force
  /\ devicesCache.present
  /\ now - cacheTimestamp = cacheDuration

\* C28: when the directory's answer is a failed fetch, getDevices leaves the
\* cache and its timestamp as they were; GET /devices then answers 200 with
\* the cached list when one is cached, however old, and fails (502) only when
\* none is. So while a list is cached GET /devices never fails.
C28_StaleCacheFallback ==
  [][(req.pc \in {"dir", "dir1", "dir2"} /\ req' # req)
       => /\ FetchFailed(req'.dirAnswer)
               => (/\ devicesCache' = devicesCache
                   /\ cacheTimestamp' = cacheTimestamp
                   /\ (req.pc = "dir" /\ devicesCache.present)
                        => (/\ req'.status = 200
                            /\ req'.body = DevicesBody(devicesCache.list))
                   /\ (req.pc = "dir" /\ ~devicesCache.present)
                        => req'.status = 502)
          /\ (req.pc = "dir" /\ devicesCache.present) => req'.status = 200]_vars

\* GET /devices has answered 200 with a cached list 300000 ms old or older,
\* after the directory request was rejected.
C28_Witness ==
  /\ req.route = "devices"
  /\ req.pc = "done"
  /\ req.dirAnswer.rejected
  /\ req.status = 200
  /\ devicesCache.present
  /\ now - cacheTimestamp >= cacheDuration
  /\ req.body = DevicesBody(devicesCache.list)

\* The queries task record t has sent so far in its call.
QueriesSent(t) == Len(t.qHist) + IF t.pc = "query" THEN 1 ELSE 0

\* What is left of a getTimeseries call at most: the attempts not yet begun,
\* and within the current attempt the waits still ahead (the refresh and the
\* login of getValidToken, the query, the delay, the forced refresh and its
\* fallback login).
StepsLeft(t) ==
  IF t.pc = "done" THEN 0
  ELSE (maxRetries - t.retryCount) * 6
       + CASE t.pc = "refresh" /\ t.ctx = "gvt" -> 6
           [] t.pc = "login" /\ t.ctx = "gvt" -> 5
           [] t.pc = "query" -> 4
           [] t.pc = "delay" -> 3
           [] t.pc = "refresh" -> 2
           [] OTHER -> 1

\* C29 as stated: a getTimeseries call sends at most 4 queries and makes at
\* most 3 refreshToken() calls, and its retry count changes only by +1, on
\* the way from a 401 to the next attempt.
C29_BoundedCall ==
  [][\A p \in QueryTasks :
       /\ QueriesSent(task'[p]) <= maxRetries + 1
       /\ task'[p].nRefresh <= maxRetries
       /\ (task[p].op = "getTimeseries" /\ task'[p].op = "getTimeseries"
             /\ task'[p].retryCount # task[p].retryCount)
            => /\ task'[p].retryCount = task[p].retryCount + 1
               /\ LastStatus(task[p]) = 401]_vars

\* C29 amended: a getTimeseries call sends at most 4 queries; it makes at
\* most 3 refreshToken() calls from the 401 path and at most one more per
\* attempt from getValidToken(), which refreshes a credential with less than
\* 60000 ms remaining (so at most 3 in all when no attempt met one, and never
\* more than 7); its retry count changes only by +1, when the forced refresh
\* after a 401 has returned; and every step of the call leaves strictly less
\* of it to do, so the call ends once its requests are answered.
C29_BoundedCall_Amended ==
  [][\A p \in QueryTasks :
       /\ QueriesSent(task'[p]) <= maxRetries + 1
       /\ task'[p].nRefresh <= maxRetries + task'[p].retryCount + 1
       /\ ~task'[p].sawStale => task'[p].nRefresh <= maxRetries
       /\ (task[p].op = "getTimeseries" /\ task'[p].op = "getTimeseries"
             /\ task'[p] # task[p])
            => /\ StepsLeft(task'[p]) < StepsLeft(task[p])
               /\ task'[p].retryCount # task[p].retryCount
                    => (/\ task'[p].retryCount = task[p].retryCount + 1
                        /\ LastStatus(task[p]) = 401
                        /\ task[p].ctx = "forced"
                        /\ Renewing(p))]_vars

\* A call has ended after 4 queries, all answered 401, and 7 refreshToken()
\* calls: 3 forced ones and one by getValidToken() in each attempt.
C29_Witness ==
  \E p \in QueryTasks :
    /\ task[p].pc = "done"
    /\ task[p].qHist = <<401, 401, 401, 401>>
    /\ task[p].retryCount = maxRetries
    /\ task[p].nRefresh = 2 * maxRetries + 1

\* One more refreshToken() call of the same Refresh(): the count of task p is
\* unchanged by the step.
SameRefreshCall(p) ==
  /\ task'[p].op = task[p].op
  /\ task'[p].nRefresh = task[p].nRefresh

\* C30: within one refreshToken() call the refresh request is sent at most
\* once and the login request at most once: the answer to the refresh request
\* is followed by the return or by the one fallback login, and the answer to
\* a login by the return or the throw, never by another request of that call.
C30_OneRequestEach ==
  [][\A p \in Tasks :
       /\ (task[p].pc = "refresh" /\ SameRefreshCall(p) /\ task'[p] # task[p])
            => /\ task'[p].pc # "refresh"
               /\ task'[p].pc = "login" => task[p].loginStatus = 0
       /\ (task[p].pc = "login" /\ SameRefreshCall(p) /\ task'[p] # task[p])
            => task'[p].pc \notin {"login", "refresh"}
       /\ (task[p].pc = "login" /\ SameRefreshCall(p) /\ task'[p].loginStatus # 200
             /\ task'[p] # task[p])
            => task'[p].pc = "done"]_vars

\* refreshToken() has thrown after a 401 to its refresh request and a failed
\* fallback login.
C30_Witness ==
  /\ task[BootTask].op = "refreshToken"
  /\ task[BootTask].pc = "done"
  /\ task[BootTask].refreshOutcome = "401"
  /\ task[BootTask].loginStatus = 401
  /\ IsError(task[BootTask].result)

\* C31: a stored credential is never absent again, whatever fails, fires or
\* is cleaned up; and every step that changes the credential is the answer
\* 200 to one login or refresh request, from which the access token, the
\* refresh token and the expiry are all taken: both tokens are the new ones
\* of that response and the expiry is computed from its exp claim at that time.
C31_CredentialNeverCleared ==
  [][/\ tokenPayload.present => tokenPayload'.present
     /\ tokenPayload' # tokenPayload
         => /\ tokenPayload'.present
            /\ tokenPayload'.token \notin LiveTokens
            /\ tokenPayload'.refreshToken = tokenPayload'.token
            /\ \E exp \in ExpClaims(now) :
                 tokenPayload'.expiresAt = getTokenExpiration(exp, now)
            /\ \E p \in Tasks :
                 /\ Renewing(p)
                 /\ ~Renewing(p)'
                 /\ \/ task[p].pc = "login" /\ task'[p].loginStatus = 200
                    \/ task[p].pc = "refresh" /\ task'[p].refreshOutcome = "200"]_vars

\* The credential is still held after cleanup() (no interval handle is left)
\* and after a renewal that failed.
C31_Witness ==
  /\ tokenPayload.present
  /\ tokenRefreshInterval = 0
  /\ task[BootTask].pc = "done"
  /\ IsError(task[BootTask].result)

\* C32 as stated, for a renewal in flight when cleanup() ran: while the
\* interval's own refresh is in flight and the service holds no interval
\* handle (the interval fired, so cleanup() ran after that), no step arms an
\* interval.
C32_NoTimerAfterCleanup ==
  [][\A p \in Tasks :
       (task[p].op = "timer" /\ Renewing(p) /\ tokenRefreshInterval = 0)
         => (timers' = <<>> /\ tokenRefreshInterval' = 0)]_vars

\* C33 as stated: when the later-issued of two overlapping renewal calls has
\* stored and returned a token and the earlier-issued one has completed too,
\* the credential held is the one the later-issued call stored.
C33_LastIssuedWins ==
  (/\ task[EarlierTask].pc = "done"
   /\ task[LaterTask].pc = "done"
   /\ task[LaterTask].result.kind = "token")
    => tokenPayload.token = task[LaterTask].result.val

====
